---- MODULE Spec2Model ----
(***************************************************************************)
(* A model of timed-task.h: the TimerTask periodic scheduler, its worker   *)
(* thread and its StatisticsCollector.                                     *)
(*                                                                         *)
(* One controller thread owns the TimerTask object and calls stop(),       *)
(* setRate() and the destructor one after the other.  Every std::thread    *)
(* started by init() is a worker slot with its own program counter.  The   *)
(* steps of controller and workers interleave at the granularity of the    *)
(* shared accesses of the source: running_, rate_, ratio_, mtx_, cv_.      *)
(*                                                                         *)
(* Durations are nanosecond counts.  uint64_t values (rate_, ratio_ and    *)
(* the collector's accumulators) are four 16-bit limbs, least significant  *)
(* first, so that their 64-bit width is kept.                              *)
(*                                                                         *)
(* Spec is the scheduler with its controller; WideSpec is the scheduler    *)
(* built with a rate whose product with the unit wraps; CycleSpec applies  *)
(* the arithmetic of one cycle to inputs drawn from bounded sets.          *)
(*                                                                         *)
(* Undefined behaviour is a choice between its outcomes: an integer        *)
(* division or remainder by zero either traps (SIGFPE) or leaves some      *)
(* value; the unsynchronised accesses to running_, rate_ and ratio_ take   *)
(* effect in either order.  std::terminate and a trap end the process:     *)
(* proc leaves "alive" and nothing moves any more.  The action is taken    *)
(* to return normally; spurious wake-ups of wait_for, which retest the     *)
(* predicate and block again, are left out.                                *)
(***************************************************************************)
EXTENDS Integers, Sequences, FiniteSets

VARIABLES
    rate_,              \* TimerTask::rate_
    ratio_,             \* TimerTask::ratio_
    statisticsEnabled,  \* TimerTask::statisticsEnabled
    running_,           \* TimerTask::running_
    workerThread_,      \* TimerTask::workerThread_: the slot it owns, 0 = not joinable
    mtx,                \* TimerTask::mtx_: the worker slot holding it, 0 = free
    collector,          \* TimerTask::collector
    workers,            \* the threads started by init(), by slot
    ctlPc,              \* the controller's position
    ctlOp,              \* the public operation the controller is in
    ctlUnit,            \* setRate's parameter unit
    ctlImm,             \* setRate's parameter imediate
    proc,               \* the process: alive, or how it ended
    sink,               \* the reports printResults has written
    opsLeft,            \* calls the controller may still make
    hist                \* history of the current call, for stating properties

vars == <<rate_, ratio_, statisticsEnabled, running_, workerThread_, mtx,
          collector, workers, ctlPc, ctlOp, ctlUnit, ctlImm, proc, sink,
          opsLeft, hist>>

(***************************************************************************)
(* Bounds of the model.                                                    *)
(***************************************************************************)
MaxOps == 2
MaxSamples == 1
NWorkers == 2

(***************************************************************************)
(* enum TimeUnit and the constants of the source.                          *)
(***************************************************************************)
nanoseconds == 1
microseconds == nanoseconds * 1000
milliseconds == microseconds * 1000
Offset == 50000

Durations == {0, 1500000}
Lateness == {60000}

Slots == 1..NWorkers

(***************************************************************************)
(* uint64_t: four limbs of 16 bits, least significant first.               *)
(***************************************************************************)
Base == 2^16

U64(n) == <<n % Base, (n \div Base) % Base, 0, 0>>

U64Zero == U64(0)

U64MaxVal == <<Base - 1, Base - 1, Base - 1, Base - 1>>

U64Not(a) == [i \in 1..4 |-> (Base - 1) - a[i]]

\* the conversion of a signed 64-bit count to uint64_t (two's complement)
ToU64(x) == IF x >= 0 THEN U64(x) ELSE U64Not(U64((-x) - 1))

U64Add(a, b) ==
    LET s1 == a[1] + b[1]
        s2 == a[2] + b[2] + (s1 \div Base)
        s3 == a[3] + b[3] + (s2 \div Base)
        s4 == a[4] + b[4] + (s3 \div Base)
    IN  <<s1 % Base, s2 % Base, s3 % Base, s4 % Base>>

U64Less(a, b) ==
    \E i \in 1..4 : a[i] < b[i] /\ \A j \in (i + 1)..4 : a[j] = b[j]

U64MaxOf(a, b) == IF U64Less(a, b) THEN b ELSE a

U64MinOf(a, b) == IF U64Less(b, a) THEN b ELSE a

\* a / n for a divisor 0 < n < 2^15
U64Div(a, n) ==
    LET t4 == a[4]
        t3 == (t4 % n) * Base + a[3]
        t2 == (t3 % n) * Base + a[2]
        t1 == (t2 % n) * Base + a[1]
    IN  <<t1 \div n, t2 \div n, t3 \div n, t4 \div n>>

\* the low and the high 16 bits of the product of two limbs
MulLo(x, y) == ((x * (y % 256)) + ((x * (y \div 256)) % 256) * 256) % Base

MulHi(x, y) ==
    (((x * (y % 256)) + ((x * (y \div 256)) % 256) * 256) \div Base)
        + ((x * (y \div 256)) \div 256)

\* a * b modulo 2^64
U64Mul(a, b) ==
    LET c1 == MulLo(a[1], b[1])
        c2 == MulLo(a[1], b[2]) + MulLo(a[2], b[1]) + MulHi(a[1], b[1])
        c3 == MulLo(a[1], b[3]) + MulLo(a[2], b[2]) + MulLo(a[3], b[1])
                + MulHi(a[1], b[2]) + MulHi(a[2], b[1]) + (c2 \div Base)
        c4 == MulLo(a[1], b[4]) + MulLo(a[2], b[3]) + MulLo(a[3], b[2])
                + MulLo(a[4], b[1]) + MulHi(a[1], b[3]) + MulHi(a[2], b[2])
                + MulHi(a[3], b[1]) + (c3 \div Base)
    IN  <<c1, c2 % Base, c3 % Base, c4 % Base>>

\* the count of a duration made from a uint64_t: the inputs keep it below
\* 2^31, the range the arithmetic on durations is modelled in
Int64(a) ==
    CASE a[3] = 0 /\ a[4] = 0 /\ a[2] < Base \div 2 -> a[1] + a[2] * Base

AbsVal(x) == IF x < 0 THEN -x ELSE x

MaxOf(x, y) == IF x < y THEN y ELSE x

\* the larger members of enum TimeUnit
seconds == U64Mul(U64(milliseconds), U64(1000))
minutes == U64Mul(seconds, U64(60))
hours == U64Mul(minutes, U64(60))

\* the values of rate_ and ratio_ (uint64_t) the controller passes
Rates == {U64(0), U64(1)}
Units == {U64(microseconds), U64(milliseconds)}

\* rate_ or ratio_ not read yet
NoVal == <<>>

(***************************************************************************)
(* StatisticsCollector                                                     *)
(***************************************************************************)
NewCollector ==
    [samples |-> 0,
     acummulation |-> U64Zero,
     compensation |-> U64Zero,
     maxVariance |-> U64Zero,
     minVariance |-> U64MaxVal,
     toleraceExcessionCount |-> 0]

calcSleepCompensation(c, amountSlept) ==
    [c EXCEPT !.compensation = U64Add(@, ToU64(amountSlept))]

accumulate(c, amount) ==
    [c EXCEPT !.acummulation = U64Add(@, amount), !.samples = @ + 1]

\* as considerVariance, with std::max and std::min exchanged
considerVarianceSwapped(c, errorSample) ==
    [c EXCEPT !.maxVariance = U64MinOf(errorSample, @),
              !.minVariance = U64MaxOf(errorSample, @)]

considerVariance(c, errorSample) ==
    [c EXCEPT !.maxVariance = U64MaxOf(errorSample, @),
              !.minVariance = U64MinOf(errorSample, @)]

\* as ExceedsTolerance, without the 5% of tolerance
ExceedsExpected(execTime, expected) == execTime > expected

\* execTime > expected * 1.05, in exact arithmetic
ExceedsTolerance(execTime, expected) == execTime * 100 > expected * 105

\* as calcExecTimeError, had the difference been taken without chrono::abs
calcExecTimeErrorSigned(c, execTime, expected) ==
    LET error == ToU64(execTime - expected)
        c2 == considerVariance(accumulate(c, error), error)
    IN  IF ExceedsTolerance(execTime, expected)
        THEN [c2 EXCEPT !.toleraceExcessionCount = @ + 1]
        ELSE c2

calcExecTimeError(c, execTime, expected) ==
    LET error == ToU64(AbsVal(execTime - expected))
        c2 == considerVariance(accumulate(c, error), error)
    IN  IF ExceedsTolerance(execTime, expected)
        THEN [c2 EXCEPT !.toleraceExcessionCount = @ + 1]
        ELSE c2

\* the figures printResults writes for samples > 0; the division by
\* samplingUnit is kept as the unit the nanosecond figures are scaled by
printResults(c, samplingUnit) ==
    [samples |-> c.samples,
     deviation |-> U64Div(c.acummulation, c.samples),
     compensation |-> U64Div(c.compensation, c.samples),
     maxVariance |-> c.maxVariance,
     minVariance |-> c.minVariance,
     exceeded |-> c.toleraceExcessionCount,
     unit |-> samplingUnit,
     defined |-> TRUE]

\* what the two divisions by samples = 0 leave when they do not trap
GarbageValues == {U64Zero, U64MaxVal}

printResultsUndefined(c, samplingUnit, g) ==
    [samples |-> c.samples,
     deviation |-> g,
     compensation |-> g,
     maxVariance |-> c.maxVariance,
     minVariance |-> c.minVariance,
     exceeded |-> c.toleraceExcessionCount,
     unit |-> samplingUnit,
     defined |-> FALSE]

(***************************************************************************)
(* The worker thread of init()                                             *)
(***************************************************************************)
\* invoked and recorded count the calls of doAction() and of
\* calcExecTimeError this thread has made; total is the now - start of the
\* cycle being recorded
IdleWorker ==
    [pc |-> "none", rate |-> NoVal, ratio |-> NoVal, period |-> 0,
     elapsed |-> 0, sleep |-> 0, notified |-> FALSE, timedOut |-> FALSE,
     invoked |-> 0, recorded |-> 0, total |-> 0]

SpawnedWorker == [IdleWorker EXCEPT !.pc = "spawned"]

ExitedWorker == [IdleWorker EXCEPT !.pc = "exited"]

Alive(w) == workers[w].pc \notin {"none", "exited"}

FreeSlots == {w \in Slots : workers[w].pc = "none" /\ w # workerThread_}

\* full_sleep_time_nanos = nanoseconds(ratio_ * rate_): the product of two
\* uint64_t, modulo 2^64
Period(ratio, rate) == Int64(U64Mul(ratio, rate))

\* as CompensatedSleep, had the overrun itself been taken for the sleep time
CompensatedSleepOverrun(period, elapsed) ==
    LET sleepTime == period - elapsed
    IN  IF sleepTime < 0
        THEN AbsVal(sleepTime) % period
        ELSE sleepTime

\* sleepTime before the offset is subtracted
CompensatedSleep(period, elapsed) ==
    LET sleepTime == period - elapsed
    IN  IF sleepTime < 0
        THEN period - (AbsVal(sleepTime) % period)
        ELSE sleepTime

SleepTime(period, elapsed) == CompensatedSleep(period, elapsed) - Offset

\* the predicate of cv_.wait_for
StopRequested == ~running_

(***************************************************************************)
(* State after the constructor: init() has run once.                       *)
(***************************************************************************)
NewHist ==
    [stopped |-> FALSE, running |-> FALSE, sinkLen |-> 0, joined |-> FALSE,
     last |-> "ctor"]

Init ==
    /\ rate_ \in Rates
    /\ ratio_ \in Units
    /\ statisticsEnabled \in BOOLEAN
    /\ running_ = FALSE
    /\ workerThread_ = (IF rate_ # U64Zero THEN 1 ELSE 0)
    /\ mtx = 0
    /\ collector = NewCollector
    /\ workers = [w \in Slots |->
                    IF rate_ # U64Zero /\ w = 1
                    THEN SpawnedWorker ELSE IdleWorker]
    /\ ctlPc = "idle"
    /\ ctlOp = "none"
    /\ ctlUnit = U64(nanoseconds)
    /\ ctlImm = FALSE
    /\ proc = "alive"
    /\ sink = <<>>
    /\ opsLeft = MaxOps
    /\ hist = NewHist

objVars == <<rate_, ratio_, statisticsEnabled, running_, workerThread_>>
ctlVars == <<ctlPc, ctlOp, ctlUnit, ctlImm, opsLeft, hist>>

(***************************************************************************)
(* Worker steps: the lambda of init(), lines 146-184.                      *)
(***************************************************************************)
\* running_ = true, written without the lock
WorkerSetRunning(w) ==
    /\ proc = "alive"
    /\ workers[w].pc = "spawned"
    /\ running_' = TRUE
    /\ workers' = [workers EXCEPT ![w].pc = "calc"]
    /\ UNCHANGED <<rate_, ratio_, statisticsEnabled, workerThread_, mtx,
                   collector, proc, sink, ctlVars>>

\* the two reads of ratio_ * rate_, in either order; the second one
\* completes full_sleep_time_nanos
WorkerReadRate(w) ==
    /\ proc = "alive"
    /\ workers[w].pc = "calc"
    /\ workers[w].rate = NoVal
    /\ workers' = [workers EXCEPT
            ![w].rate = rate_,
            ![w].period = IF workers[w].ratio # NoVal
                          THEN Period(workers[w].ratio, rate_) ELSE @,
            ![w].pc = IF workers[w].ratio # NoVal THEN "top" ELSE @]
    /\ UNCHANGED <<objVars, mtx, collector, proc, sink, ctlVars>>

WorkerReadRatio(w) ==
    /\ proc = "alive"
    /\ workers[w].pc = "calc"
    /\ workers[w].ratio = NoVal
    /\ workers' = [workers EXCEPT
            ![w].ratio = ratio_,
            ![w].period = IF workers[w].rate # NoVal
                          THEN Period(ratio_, workers[w].rate) ELSE @,
            ![w].pc = IF workers[w].rate # NoVal THEN "top" ELSE @]
    /\ UNCHANGED <<objVars, mtx, collector, proc, sink, ctlVars>>

\* start = Clock::now(); doAction() is entered
WorkerInvokeAction(w) ==
    /\ proc = "alive"
    /\ workers[w].pc = "top"
    /\ workers' = [workers EXCEPT ![w].pc = "action", ![w].invoked = @ + 1]
    /\ UNCHANGED <<objVars, mtx, collector, proc, sink, ctlVars>>

\* doAction() is pure virtual in TimerTask: a call dispatched once the
\* destructor of TimerTask has begun may find no override and abort
WorkerInvokePureVirtual(w) ==
    /\ proc = "alive"
    /\ workers[w].pc = "top"
    /\ ctlOp = "dtor"
    /\ proc' = "terminate"
    /\ UNCHANGED <<objVars, mtx, collector, workers, sink, ctlVars>>

\* the remainder by full_sleep_time_nanos is taken, and that is zero
ModuloByZero(period, elapsed) == period = 0 /\ period - elapsed < 0

\* what a remainder by zero leaves when it does not trap
GarbageRemainders == {0, 1}

\* doAction() returns after `elapsed`; stop = Clock::now(); sleepTime
WorkerFinishAction(w, elapsed) ==
    /\ proc = "alive"
    /\ workers[w].pc = "action"
    /\ ~ModuloByZero(workers[w].period, elapsed)
    /\ workers' = [workers EXCEPT
            ![w].elapsed = elapsed,
            ![w].sleep = SleepTime(workers[w].period, elapsed),
            ![w].pc = "lock"]
    /\ UNCHANGED <<objVars, mtx, collector, proc, sink, ctlVars>>

\* the same with a remainder by zero (the worker read rate_ = 0 while
\* setRate was writing it): the remainder traps
WorkerFinishActionTrap(w, elapsed) ==
    /\ proc = "alive"
    /\ workers[w].pc = "action"
    /\ ModuloByZero(workers[w].period, elapsed)
    /\ proc' = "sigfpe_remainder"
    /\ UNCHANGED <<objVars, mtx, collector, workers, sink, ctlVars>>

\* the same, and the remainder leaves some value
WorkerFinishActionUndefined(w, elapsed) ==
    /\ proc = "alive"
    /\ workers[w].pc = "action"
    /\ ModuloByZero(workers[w].period, elapsed)
    /\ \E g \in GarbageRemainders :
          workers' = [workers EXCEPT
                ![w].elapsed = elapsed,
                ![w].sleep = (workers[w].period - g) - Offset,
                ![w].pc = "lock"]
    /\ UNCHANGED <<objVars, mtx, collector, proc, sink, ctlVars>>

\* as WorkerLockAndWait, had wait_for no predicate to test before it blocks
WorkerLockAndWaitUnchecked(w) ==
    /\ proc = "alive"
    /\ workers[w].pc = "lock"
    /\ mtx = 0
    /\ workers' = [workers EXCEPT ![w].pc = "waiting",
                                  ![w].notified = FALSE,
                                  ![w].timedOut = FALSE]
    /\ UNCHANGED <<objVars, mtx, collector, proc, sink, ctlVars>>

\* unique_lock lock(mtx_); wait_for tests the predicate before it blocks:
\* true breaks out of the loop and the thread ends, false releases the
\* mutex and blocks.  (The cout of sleepTime in between changes no state.)
WorkerLockAndWait(w) ==
    /\ proc = "alive"
    /\ workers[w].pc = "lock"
    /\ mtx = 0
    /\ workers' = [workers EXCEPT ![w] =
            IF StopRequested
            THEN ExitedWorker
            ELSE [@ EXCEPT !.pc = "waiting", !.notified = FALSE,
                           !.timedOut = FALSE]]
    /\ UNCHANGED <<objVars, mtx, collector, proc, sink, ctlVars>>

\* the deadline of wait_for passes
Timeout(w) ==
    /\ proc = "alive"
    /\ workers[w].pc = "waiting"
    /\ ~workers[w].timedOut
    /\ collector.samples < MaxSamples
    /\ workers' = [workers EXCEPT ![w].timedOut = TRUE]
    /\ UNCHANGED <<objVars, mtx, collector, proc, sink, ctlVars>>

\* the thread has left the loop out of a wait; how the wait ended is kept
ExitedFromWait(w) ==
    [ExitedWorker EXCEPT !.notified = workers[w].notified,
                         !.timedOut = workers[w].timedOut]

\* as WorkerWake, had a timeout been taken for a completed cycle without
\* testing the predicate
WorkerWakeTimeoutFirst(w) ==
    /\ proc = "alive"
    /\ workers[w].pc = "waiting"
    /\ workers[w].notified \/ workers[w].timedOut
    /\ mtx = 0
    /\ IF workers[w].timedOut
       THEN /\ workers' = [workers EXCEPT ![w].pc = "record"]
            /\ mtx' = w
       ELSE IF StopRequested
       THEN /\ workers' = [workers EXCEPT ![w] = ExitedFromWait(w)]
            /\ mtx' = mtx
       ELSE /\ workers' = [workers EXCEPT ![w].notified = FALSE]
            /\ mtx' = mtx
    /\ UNCHANGED <<objVars, collector, proc, sink, ctlVars>>

\* wait_for wakes (notified or timed out), reacquires the mutex and tests
\* the predicate: true breaks, otherwise a timeout returns false and the
\* cycle is recorded, and a notification alone goes back to waiting
WorkerWake(w) ==
    /\ proc = "alive"
    /\ workers[w].pc = "waiting"
    /\ workers[w].notified \/ workers[w].timedOut
    /\ mtx = 0
    /\ IF StopRequested
       THEN /\ workers' = [workers EXCEPT ![w] = ExitedFromWait(w)]
            /\ mtx' = mtx
       ELSE IF workers[w].timedOut
       THEN /\ workers' = [workers EXCEPT ![w].pc = "record"]
            /\ mtx' = w
       ELSE /\ workers' = [workers EXCEPT ![w].notified = FALSE]
            /\ mtx' = mtx
    /\ UNCHANGED <<objVars, collector, proc, sink, ctlVars>>

\* Clock::now() - start after the wait: the action's time, the time waited
\* (none for a duration that is not positive) and the lateness of the wake-up
CycleTime(w, late) == workers[w].elapsed + MaxOf(workers[w].sleep, 0) + late

\* collector.calcExecTimeError(start, Clock::now(), full_sleep_time_nanos)
WorkerRecordError(w, late) ==
    /\ proc = "alive"
    /\ workers[w].pc = "record"
    /\ collector' = calcExecTimeError(collector, CycleTime(w, late),
                                      workers[w].period)
    /\ workers' = [workers EXCEPT ![w].pc = "record2",
                                  ![w].total = CycleTime(w, late),
                                  ![w].recorded = @ + 1]
    /\ UNCHANGED <<objVars, mtx, proc, sink, ctlVars>>

\* as WorkerRecordCompensation, had the iteration ended without
\* calcSleepCompensation
WorkerSkipCompensation(w) ==
    /\ proc = "alive"
    /\ workers[w].pc = "record2"
    /\ workers' = [workers EXCEPT ![w].pc = "top", ![w].elapsed = 0,
                                  ![w].sleep = 0, ![w].notified = FALSE,
                                  ![w].timedOut = FALSE, ![w].total = 0]
    /\ mtx' = 0
    /\ UNCHANGED <<objVars, collector, proc, sink, ctlVars>>

\* collector.calcSleepCompensation(sleepTime); the iteration ends and the
\* unique_lock is released
WorkerRecordCompensation(w) ==
    /\ proc = "alive"
    /\ workers[w].pc = "record2"
    /\ collector' = calcSleepCompensation(collector, workers[w].sleep)
    /\ workers' = [workers EXCEPT ![w].pc = "top", ![w].elapsed = 0,
                                  ![w].sleep = 0, ![w].notified = FALSE,
                                  ![w].timedOut = FALSE, ![w].total = 0]
    /\ mtx' = 0
    /\ UNCHANGED <<objVars, proc, sink, ctlVars>>

(***************************************************************************)
(* Controller steps: stop(), setRate(), restart(), init(), ~TimerTask().   *)
(***************************************************************************)
AtCall ==
    [hist EXCEPT !.running = running_, !.sinkLen = Len(sink),
                 !.joined = FALSE]

\* stop() begins with if (workerThread_.joinable())
StopEntry == IF workerThread_ # 0 THEN "stop_lock" ELSE "stop_print"

\* as ThreadFinished, had stop() let go of the thread without waiting for it
ThreadLetGo(w) == TRUE

\* the thread function of slot w has returned, so join() returns
ThreadFinished(w) == workers[w].pc = "exited"

\* the slot init() starts the next std::thread in
SpawnSlot == CHOOSE w \in FreeSlots : \A v \in FreeSlots : w <= v

CallStop ==
    /\ proc = "alive"
    /\ ctlPc = "idle"
    /\ opsLeft > 0
    /\ ctlPc' = StopEntry
    /\ ctlOp' = "stop"
    /\ opsLeft' = opsLeft - 1
    /\ hist' = AtCall
    /\ UNCHANGED <<objVars, mtx, collector, workers, ctlUnit, ctlImm, proc,
                   sink>>

\* { lock_guard lock(mtx_); running_ = false; }
StopSetRunningFalse ==
    /\ proc = "alive"
    /\ ctlPc = "stop_lock"
    /\ mtx = 0
    /\ running_' = FALSE
    /\ ctlPc' = "stop_notify"
    /\ UNCHANGED <<rate_, ratio_, statisticsEnabled, workerThread_, mtx,
                   collector, workers, ctlOp, ctlUnit, ctlImm, proc, sink,
                   opsLeft, hist>>

\* cv_.notify_one(): one waiting thread, if there is one, is notified
StopNotify ==
    /\ proc = "alive"
    /\ ctlPc = "stop_notify"
    /\ LET waiting == {w \in Slots : workers[w].pc = "waiting"}
       IN  IF waiting = {}
           THEN workers' = workers
           ELSE \E w \in waiting :
                    workers' = [workers EXCEPT ![w].notified = TRUE]
    /\ ctlPc' = "stop_join"
    /\ UNCHANGED <<objVars, mtx, collector, ctlOp, ctlUnit, ctlImm, proc,
                   sink, opsLeft, hist>>

\* workerThread_.join()
StopJoin ==
    /\ proc = "alive"
    /\ ctlPc = "stop_join"
    /\ ThreadFinished(workerThread_)
    /\ workers' = [workers EXCEPT ![workerThread_] =
                        IF @.pc = "exited" THEN IdleWorker ELSE @]
    /\ workerThread_' = 0
    /\ ctlPc' = "stop_print"
    /\ hist' = [hist EXCEPT !.joined = TRUE]
    /\ UNCHANGED <<rate_, ratio_, statisticsEnabled, running_, mtx,
                   collector, ctlOp, ctlUnit, ctlImm, proc, sink, opsLeft>>

\* where stop() returns to: its caller, restart() or the destructor
AfterStop ==
    /\ ctlPc' = CASE ctlOp = "stop" -> "idle"
                  [] ctlOp = "setRate" -> "init"
                  [] OTHER -> "dtor_members"
    /\ ctlOp' = IF ctlOp = "stop" THEN "none" ELSE ctlOp
    /\ hist' = IF ctlOp = "stop"
               THEN [hist EXCEPT !.stopped = TRUE, !.last = "stop"]
               ELSE hist

\* if (statisticsEnabled) collector.printResults(milliseconds), samples > 0
StopPrint ==
    /\ proc = "alive"
    /\ ctlPc = "stop_print"
    /\ statisticsEnabled => collector.samples # 0
    /\ sink' = IF statisticsEnabled
               THEN Append(sink, printResults(collector, milliseconds))
               ELSE sink
    /\ AfterStop
    /\ UNCHANGED <<objVars, mtx, collector, workers, ctlUnit, ctlImm, proc,
                   opsLeft>>

\* printResults with samples = 0 divides by zero: the division traps
StopPrintTrap ==
    /\ proc = "alive"
    /\ ctlPc = "stop_print"
    /\ statisticsEnabled
    /\ collector.samples = 0
    /\ proc' = "sigfpe_summary"
    /\ UNCHANGED <<objVars, mtx, collector, workers, sink, ctlVars>>

\* printResults with samples = 0 divides by zero: the division leaves some
\* value and the report is written with it
StopPrintUndefined ==
    /\ proc = "alive"
    /\ ctlPc = "stop_print"
    /\ statisticsEnabled
    /\ collector.samples = 0
    /\ \E g \in GarbageValues :
          sink' = Append(sink, printResultsUndefined(collector, milliseconds, g))
    /\ AfterStop
    /\ UNCHANGED <<objVars, mtx, collector, workers, ctlUnit, ctlImm, proc,
                   opsLeft>>

\* setRate: this->rate_ = rate
CallSetRate(rate, unit, imediate) ==
    /\ proc = "alive"
    /\ ctlPc = "idle"
    /\ opsLeft > 0
    /\ rate_' = rate
    /\ ctlUnit' = unit
    /\ ctlImm' = imediate
    /\ ctlPc' = "set_ratio"
    /\ ctlOp' = "setRate"
    /\ opsLeft' = opsLeft - 1
    /\ hist' = AtCall
    /\ UNCHANGED <<ratio_, statisticsEnabled, running_, workerThread_, mtx,
                   collector, workers, proc, sink>>

\* setRate: this->ratio_ = unit; then restart() calls stop(), or the
\* non-immediate branch does nothing
SetRateWriteRatio ==
    /\ proc = "alive"
    /\ ctlPc = "set_ratio"
    /\ ratio_' = ctlUnit
    /\ ctlUnit' = U64(nanoseconds)
    /\ ctlImm' = FALSE
    /\ IF ctlImm
       THEN /\ ctlPc' = StopEntry
            /\ ctlOp' = ctlOp
            /\ hist' = hist
       ELSE /\ ctlPc' = "idle"
            /\ ctlOp' = "none"
            /\ hist' = [hist EXCEPT !.last = "setRateLater"]
    /\ UNCHANGED <<rate_, statisticsEnabled, running_, workerThread_, mtx,
                   collector, workers, proc, sink, opsLeft>>

\* as RestartInit, had restart() begun with a fresh collector
RestartInitFresh ==
    /\ proc = "alive"
    /\ ctlPc = "init"
    /\ IF rate_ = U64Zero
       THEN UNCHANGED <<workers, workerThread_, proc>>
       ELSE IF workerThread_ # 0
       THEN proc' = "terminate" /\ UNCHANGED <<workers, workerThread_>>
       ELSE /\ FreeSlots # {}
            /\ workers' = [workers EXCEPT ![SpawnSlot] = SpawnedWorker]
            /\ workerThread_' = SpawnSlot
            /\ proc' = proc
    /\ collector' = NewCollector
    /\ ctlPc' = "idle"
    /\ ctlOp' = "none"
    /\ hist' = [hist EXCEPT !.stopped = FALSE, !.last = "setRate"]
    /\ UNCHANGED <<rate_, ratio_, statisticsEnabled, running_, mtx,
                   ctlUnit, ctlImm, sink, opsLeft>>

\* restart(): init() after stop().  Assigning a new std::thread to a
\* joinable workerThread_ calls std::terminate
RestartInit ==
    /\ proc = "alive"
    /\ ctlPc = "init"
    /\ IF rate_ = U64Zero
       THEN UNCHANGED <<workers, workerThread_, proc>>
       ELSE IF workerThread_ # 0
       THEN proc' = "terminate" /\ UNCHANGED <<workers, workerThread_>>
       ELSE /\ FreeSlots # {}
            /\ workers' = [workers EXCEPT ![SpawnSlot] = SpawnedWorker]
            /\ workerThread_' = SpawnSlot
            /\ proc' = proc
    /\ ctlPc' = "idle"
    /\ ctlOp' = "none"
    /\ hist' = [hist EXCEPT !.stopped = FALSE, !.last = "setRate"]
    /\ UNCHANGED <<rate_, ratio_, statisticsEnabled, running_, mtx,
                   collector, ctlUnit, ctlImm, sink, opsLeft>>

\* ~TimerTask(): if (running_) stop();
CallDtor ==
    /\ proc = "alive"
    /\ ctlPc = "idle"
    /\ opsLeft > 0
    /\ ctlPc' = IF running_ THEN StopEntry ELSE "dtor_members"
    /\ ctlOp' = "dtor"
    /\ opsLeft' = opsLeft - 1
    /\ hist' = AtCall
    /\ UNCHANGED <<objVars, mtx, collector, workers, ctlUnit, ctlImm, proc,
                   sink>>

\* the members are destroyed: ~thread() of a joinable workerThread_ calls
\* std::terminate
DtorMembers ==
    /\ proc = "alive"
    /\ ctlPc = "dtor_members"
    /\ IF workerThread_ # 0
       THEN proc' = "terminate" /\ ctlPc' = ctlPc
       ELSE proc' = proc /\ ctlPc' = "destroyed"
    /\ UNCHANGED <<objVars, mtx, collector, workers, ctlOp, ctlUnit, ctlImm,
                   sink, opsLeft, hist>>

WorkerStep(w) ==
    \/ WorkerSetRunning(w)
    \/ WorkerReadRate(w)
    \/ WorkerReadRatio(w)
    \/ WorkerInvokeAction(w)
    \/ WorkerInvokePureVirtual(w)
    \/ \E elapsed \in Durations : WorkerFinishAction(w, elapsed)
    \/ \E elapsed \in Durations : WorkerFinishActionTrap(w, elapsed)
    \/ \E elapsed \in Durations : WorkerFinishActionUndefined(w, elapsed)
    \/ WorkerLockAndWait(w)
    \/ WorkerWake(w)
    \/ \E late \in Lateness : WorkerRecordError(w, late)
    \/ WorkerRecordCompensation(w)

StopStep ==
    \/ StopSetRunningFalse
    \/ StopNotify
    \/ StopJoin
    \/ StopPrint
    \/ StopPrintTrap
    \/ StopPrintUndefined

ControllerStep ==
    \/ CallStop
    \/ \E rate \in Rates, unit \in Units, imediate \in BOOLEAN :
            CallSetRate(rate, unit, imediate)
    \/ SetRateWriteRatio
    \/ RestartInit
    \/ CallDtor
    \/ DtorMembers
    \/ StopStep

Next ==
    \/ \E w \in Slots : WorkerStep(w)
    \/ \E w \in Slots : Timeout(w)
    \/ ControllerStep

Spec == Init /\ [][Next]_vars

(***************************************************************************)
(* The scheduler constructed with a rate whose product with the unit       *)
(* wraps: 2^51 * hours = 9 * 5^11 * 2^64.  The controller calls stop() and *)
(* the destructor.                                                         *)
(***************************************************************************)
WideRates == {<<0, 0, 0, 8>>}
WideUnits == {hours}

WideInit ==
    /\ rate_ \in WideRates
    /\ ratio_ \in WideUnits
    /\ statisticsEnabled \in BOOLEAN
    /\ running_ = FALSE
    /\ workerThread_ = (IF rate_ # U64Zero THEN 1 ELSE 0)
    /\ mtx = 0
    /\ collector = NewCollector
    /\ workers = [w \in Slots |->
                    IF rate_ # U64Zero /\ w = 1
                    THEN SpawnedWorker ELSE IdleWorker]
    /\ ctlPc = "idle"
    /\ ctlOp = "none"
    /\ ctlUnit = U64(nanoseconds)
    /\ ctlImm = FALSE
    /\ proc = "alive"
    /\ sink = <<>>
    /\ opsLeft = MaxOps
    /\ hist = NewHist

WideNext ==
    \/ \E w \in Slots : WorkerStep(w)
    \/ \E w \in Slots : Timeout(w)
    \/ CallStop
    \/ CallDtor
    \/ DtorMembers
    \/ StopStep

WideSpec == WideInit /\ [][WideNext]_vars

(***************************************************************************)
(* The arithmetic of a cycle on its own: the sleep time of lines 155-173   *)
(* and calcExecTimeError, applied to inputs drawn from bounded sets, with  *)
(* no controller.  Slot 1 holds the last period, elapsed time and sleep    *)
(* time; hist is the sequence of <<execTime, expected>> recorded so far.   *)
(***************************************************************************)
MaxCycles == 3

CyclePeriods == {1000, 50000, 1000000}
CycleDurations ==
    {0, 1000, 3000, 25000, 50000, 990000, 1000000, 1500000, 2000000}
ExecTimes == {0, 900, 1050, 1051, 1500000}
Expecteds == {1000, 1000000}

CycleInit ==
    /\ rate_ = U64(1)
    /\ ratio_ = U64(milliseconds)
    /\ statisticsEnabled = TRUE
    /\ running_ = TRUE
    /\ workerThread_ = 1
    /\ mtx = 0
    /\ collector = NewCollector
    /\ workers = [w \in Slots |->
                    IF w = 1 THEN [IdleWorker EXCEPT !.pc = "action"]
                    ELSE IdleWorker]
    /\ ctlPc = "idle"
    /\ ctlOp = "none"
    /\ ctlUnit = U64(nanoseconds)
    /\ ctlImm = FALSE
    /\ proc = "alive"
    /\ sink = <<>>
    /\ opsLeft = 0
    /\ hist = <<>>

\* the action returns: sleepTime of lines 155-173 for a period and an
\* action time
CycleSleep(period, elapsed) ==
    /\ workers[1].pc = "action"
    /\ workers' = [workers EXCEPT ![1].period = period,
                                  ![1].elapsed = elapsed,
                                  ![1].sleep = SleepTime(period, elapsed),
                                  ![1].pc = "lock"]
    /\ UNCHANGED <<objVars, mtx, collector, proc, sink, ctlVars>>

\* collector.calcExecTimeError(start, end, expected), end - start = execTime
CycleRecord(execTime, expected) ==
    /\ Len(hist) < MaxCycles
    /\ collector' = calcExecTimeError(collector, execTime, expected)
    /\ hist' = Append(hist, <<execTime, expected>>)
    /\ UNCHANGED <<objVars, mtx, workers, proc, sink, ctlPc, ctlOp, ctlUnit,
                   ctlImm, opsLeft>>

CycleNext ==
    \/ \E period \in CyclePeriods, elapsed \in CycleDurations :
            CycleSleep(period, elapsed)
    \/ \E execTime \in ExecTimes, expected \in Expecteds :
            CycleRecord(execTime, expected)

CycleSpec == CycleInit /\ [][CycleNext]_vars

(***************************************************************************)
(* Properties                                                              *)
(***************************************************************************)
AliveWorkers == {w \in Slots : Alive(w)}

\* the controller is inside an explicit call of stop()
InStop == ctlOp = "stop"

\* the controller is inside setRate(.., imediate = true), past its writes
InRestart == ctlOp = "setRate" /\ ctlPc # "set_ratio"

\* C1: a stop() called after construction with rate > 0 returns with the
\* worker joined.  join() can return only if the worker leaves its loop, so
\* while stop() waits in join() the worker it waits for has finished or the
\* cancellation stop() signalled is still in force (running_ is false).
StopReturnsJoined ==
    (InStop /\ ctlPc = "stop_join")
        => (ThreadFinished(workerThread_) \/ StopRequested)

\* C2: when a TimerTask is destroyed no worker is left running or unjoined:
\* once the destructor's body is done, every worker that was started has
\* been joined, and the destruction does not end the process.
DestructorJoinsWorker ==
    (ctlOp = "dtor" /\ ctlPc \in {"dtor_members", "destroyed"})
        => (workerThread_ = 0 /\ AliveWorkers = {} /\ proc = "alive")

ZeroRateBuilt ==
    hist.last = "ctor" /\ ctlOp \in {"none", "stop"} /\ rate_ = U64Zero

\* C4: a scheduler constructed with rate = 0 has no worker thread and never
\* invokes the action, and stop() on it is a no-op that computes no summary.
ZeroRateStopIsNoop ==
    /\ [](ZeroRateBuilt =>
            (workerThread_ = 0 /\ \A w \in Slots : workers[w] = IdleWorker))
    /\ [][(ZeroRateBuilt /\ InStop)
            => UNCHANGED <<objVars, mtx, collector, workers, sink, proc>>]_vars

\* C5: a summary requested with samples = 0 is an explicit "no data": the
\* division by samples is never performed with samples = 0, so no report
\* carries an undefined average and the division never traps.
SummaryNeverDividesByZero ==
    /\ proc # "sigfpe_summary"
    /\ \A i \in 1..Len(sink) : sink[i].samples # 0 /\ sink[i].defined

\* C6: setRate(rate, unit, true) on a running scheduler stops the loop and
\* restarts it: the call runs to its end, the old worker is joined before a
\* new one is started, and once it has returned the worker there is (none
\* for rate = 0) works with the period of the new values.
SetRateRestarts ==
    /\ (InRestart /\ hist.running) => proc = "alive"
    /\ (InRestart /\ ctlPc = "init") => (workerThread_ = 0 /\ AliveWorkers = {})
    /\ (hist.last = "setRate" /\ ctlOp = "none" /\ hist.running) =>
            /\ rate_ = U64Zero => (workerThread_ = 0 /\ AliveWorkers = {})
            /\ rate_ # U64Zero =>
                    (workerThread_ # 0 /\ AliveWorkers = {workerThread_})
            /\ \A w \in AliveWorkers :
                  workers[w].pc \notin {"spawned", "calc"}
                      => workers[w].period = Period(ratio_, rate_)

\* a setRate(.., true) on a running scheduler with rate > 0 has returned:
\* the old worker was joined and the new one is in its action
RestartedWorkerRuns ==
    /\ hist.last = "setRate" /\ ctlOp = "none" /\ hist.joined
    /\ \E w \in Slots : workers[w].pc = "action"

\* C7: at most one worker thread of a scheduler is alive at any time, so no
\* two threads are in the action at once and no two update the collector at
\* once.
AtMostOneWorker ==
    /\ Cardinality(AliveWorkers) <= 1
    /\ Cardinality({w \in Slots : workers[w].pc = "action"}) <= 1
    /\ Cardinality({w \in Slots : workers[w].pc \in {"record", "record2"}}) <= 1

\* cancellation reached a worker in its timed wait and it left the loop
\* before the deadline
WokenBeforeDeadline ==
    \E w \in Slots : /\ workers[w].pc = "exited"
                     /\ workers[w].notified
                     /\ ~workers[w].timedOut

\* C8: a worker whose timed wait is cancelled (running_ set to false while
\* it waits) is notified, can wake without the deadline having passed, and
\* when it leaves the wait it leaves the loop and records nothing; the
\* collector changes only for a worker whose wait timed out with running_
\* still true.
CancelledWaitExits ==
    /\ [](\A w \in Slots :
            (/\ proc = "alive"
             /\ workers[w].pc = "waiting"
             /\ workers[w].notified
             /\ mtx = 0) => ENABLED WorkerWake(w))
    /\ [][/\ \A w \in Slots :
                (workers[w].pc = "waiting" /\ StopRequested) =>
                    /\ workers'[w].pc \in {"waiting", "exited"}
                    /\ collector' = collector
                    /\ (ctlPc = "stop_notify" /\ ctlPc' = "stop_join")
                            => workers'[w].notified
          /\ collector' # collector =>
                \E w \in Slots : /\ workers[w].pc \in {"record", "record2"}
                                 /\ workers[w].timedOut
                                 /\ running_]_vars

\* stop() set running_ to false during the action and the worker left the
\* loop at the wait that followed, without waiting
ExitedWithoutWaiting ==
    /\ ctlPc = "stop_join"
    /\ \E w \in Slots : /\ workers[w].pc = "exited"
                        /\ ~workers[w].notified
                        /\ ~workers[w].timedOut

\* C9: cancellation does not interrupt the action: with running_ false, a
\* worker in the action stays there until the action returns, and then
\* leaves the loop at the wait without sleeping, without another action and
\* without recording; the cancellation stays in force meanwhile.
CancelDuringActionExitsAtWait ==
    [][\A w \in Slots :
          (workers[w].pc \in {"action", "lock"} /\ StopRequested) =>
              /\ workers[w].pc = "action" =>
                    workers'[w].pc \in {"action", "lock"}
              /\ workers[w].pc = "lock" =>
                    workers'[w].pc \in {"lock", "exited"}
              /\ collector' = collector
              /\ StopRequested']_vars

\* C10: a stop() that joins the worker of a running loop writes exactly
\* one report with statistics enabled and none without, and writes it only
\* after the join; a destruction after an explicit stop() writes none.
StopReportsOnce ==
    /\ (InStop /\ hist.joined) => proc = "alive"
    /\ (hist.last = "stop" /\ ctlOp = "none" /\ hist.joined) =>
            Len(sink) - hist.sinkLen = (IF statisticsEnabled THEN 1 ELSE 0)
    /\ (InStop /\ Len(sink) # hist.sinkLen) =>
            (workerThread_ = 0 /\ AliveWorkers = {})
    /\ (ctlOp = "dtor" /\ hist.stopped) => Len(sink) = hist.sinkLen

\* the error of the i-th recorded cycle, and the sum of the first n
CycleError(i) == AbsVal(hist[i][1] - hist[i][2])

RECURSIVE ErrorSum(_)
ErrorSum(n) == IF n = 0 THEN 0 ELSE ErrorSum(n - 1) + CycleError(n)

\* the recorded cycles that took more than 1.05 * expected (21/20)
CyclesOverTolerance ==
    {i \in 1..Len(hist) : hist[i][1] * 20 > hist[i][2] * 21}

\* three cycles are recorded, their errors differ, and some but not all of
\* them are over the tolerance
MixedCyclesRecorded ==
    /\ Len(hist) = MaxCycles
    /\ \E i, j \in 1..Len(hist) : CycleError(i) < CycleError(j)
    /\ CyclesOverTolerance # {}
    /\ CyclesOverTolerance # 1..Len(hist)

\* C11: calcExecTimeError is purely accumulative: after N >= 1 calls the
\* sample count is N, the accumulator is the sum of |execTime - expected|,
\* maxVariance and minVariance are the largest and the smallest of these
\* errors, and the tolerance count is the number of calls with
\* execTime > expected * 1.05.
RecordCycleAccumulates ==
    LET n == Len(hist)
    IN  n >= 1 =>
          /\ collector.samples = n
          /\ collector.acummulation = U64(ErrorSum(n))
          /\ \E i \in 1..n :
                /\ collector.maxVariance = U64(CycleError(i))
                /\ \A j \in 1..n : CycleError(j) <= CycleError(i)
          /\ \E i \in 1..n :
                /\ collector.minVariance = U64(CycleError(i))
                /\ \A j \in 1..n : CycleError(i) <= CycleError(j)
          /\ collector.toleraceExcessionCount
                = Cardinality(CyclesOverTolerance)

\* a cycle whose action took more than 1.05 * period has been recorded and
\* counted
OverrunCycleCounted ==
    \E w \in Slots :
        /\ workers[w].pc = "record2"
        /\ workers[w].period > 0
        /\ workers[w].elapsed * 20 > workers[w].period * 21
        /\ collector.toleraceExcessionCount = 1

\* C12: recording a cycle whose action took more than 1.05 * period adds
\* exactly one to the tolerance count, recording a cycle that lasted at
\* most 1.05 * period from start to the timestamp after the wait adds
\* nothing, and nothing else changes the count.
ToleranceCountedPerCycle ==
    [][LET added == collector'.toleraceExcessionCount
                        - collector.toleraceExcessionCount
       IN  /\ \A w \in Slots :
                 (workers[w].pc = "record" /\ workers'[w].pc = "record2") =>
                    /\ added \in {0, 1}
                    /\ workers[w].elapsed * 20 > workers[w].period * 21
                            => added = 1
                    /\ workers'[w].total * 20 <= workers[w].period * 21
                            => added = 0
           /\ added # 0 =>
                 \E w \in Slots : /\ workers[w].pc = "record"
                                  /\ workers'[w].pc = "record2"]_vars

\* the controller takes a step of setRate(.., imediate = false)
SetRateLaterStep ==
    \/ ctlPc = "idle" /\ ctlPc' = "set_ratio" /\ ~ctlImm'
    \/ ctlPc = "set_ratio" /\ ctlPc' # "set_ratio" /\ ~ctlImm

\* setRate(.., false) was the last call made and it has returned
SetRateLaterReturned == hist.last = "setRateLater" /\ ctlOp = "none"

\* C13: setRate(rate, unit, false) with rate > 0 on a running scheduler does
\* not stop the worker or abort its cycle, and a worker that has completed
\* a cycle once the call has returned begins its next cycle with the period
\* of the new values.
DeferredRateTakesEffect ==
    /\ [][SetRateLaterStep =>
            UNCHANGED <<running_, workerThread_, mtx, workers, collector>>]_vars
    /\ []((SetRateLaterReturned /\ rate_ # U64Zero) =>
            \A w \in Slots :
                (workers[w].pc = "top" /\ workers[w].invoked >= 1)
                    => workers[w].period = Period(ratio_, rate_))

\* stop() has written running_ = false for the worker it is about to join
StopSignalled(w) ==
    ctlPc \in {"stop_notify", "stop_join"} /\ workerThread_ = w

\* C14: once stop() has set running_ to false for a worker, no step of that
\* worker sets it back to true; running_ goes from false to true only by
\* the first statement of a newly started worker.
RunningNeverResurrected ==
    [][/\ \A w \in Slots :
            (StopSignalled(w) /\ workers'[w] # workers[w])
                => ~(~running_ /\ running_')
       /\ (~running_ /\ running_') =>
            \E w \in Slots : /\ workers[w].pc = "spawned"
                             /\ workers'[w].pc = "calc"]_vars

\* the sleep time of slot 1 before the offset is subtracted
SleepBeforeOffset == workers[1].sleep + Offset

\* the action took a whole number of periods, two at least, and the sleep
\* time before the offset is a full period
FullPeriodAfterExactOverrun ==
    /\ workers[1].pc = "lock"
    /\ workers[1].period > 0
    /\ workers[1].elapsed >= 2 * workers[1].period
    /\ workers[1].elapsed % workers[1].period = 0
    /\ SleepBeforeOffset = workers[1].period

\* C15: for a period > 0 and an action time elapsed >= 0 the sleep time
\* before the offset is period - elapsed when elapsed <= period and
\* period - ((elapsed - period) mod period) when elapsed > period; it lies
\* in [0, period], elapsed plus it is a whole multiple of period, and after
\* an action of exactly k periods, k >= 2, it is a full period.
SleepTimeFormula ==
    LET period == workers[1].period
        elapsed == workers[1].elapsed
    IN  workers[1].pc = "lock" =>
          /\ elapsed <= period => SleepBeforeOffset = period - elapsed
          /\ elapsed > period =>
                SleepBeforeOffset = period - ((elapsed - period) % period)
          /\ 0 <= SleepBeforeOffset /\ SleepBeforeOffset <= period
          /\ (elapsed + SleepBeforeOffset) % period = 0
          /\ (elapsed >= 2 * period /\ elapsed % period = 0)
                => SleepBeforeOffset = period

\* several cycles are recorded and their errors differ
DistinctErrorsRecorded ==
    /\ collector.samples >= 2
    /\ U64Less(collector.minVariance, collector.maxVariance)

\* C16: with samples > 0, minVariance <= maxVariance; with samples = 0,
\* maxVariance is 0 and minVariance is the largest uint64_t.
MinNotAboveMax ==
    /\ collector.samples > 0 =>
            ~U64Less(collector.maxVariance, collector.minVariance)
    /\ collector.samples = 0 =>
            /\ collector.maxVariance = U64Zero
            /\ collector.minVariance = U64MaxVal

\* a worker is past the computation of full_sleep_time_nanos
InLoop(w) == workers[w].pc \notin {"none", "spawned", "calc", "exited"}

\* the scheduler as constructed, before any call
JustBuilt == hist.last = "ctor" /\ ctlOp = "none" /\ opsLeft = MaxOps

\* C17: the loop is started exactly when period = rate * unit, taken modulo
\* 2^64, is positive: a scheduler built with a positive period has its
\* thread, no worker runs its loop with period 0 and no remainder by zero
\* is taken, also when rate # 0 and rate * unit wraps to 0.
LoopStartedIffPeriodPositive ==
    /\ \A w \in Slots : InLoop(w) => workers[w].period > 0
    /\ proc # "sigfpe_remainder"
    /\ (JustBuilt /\ Period(ratio_, rate_) > 0) => workerThread_ # 0

\* a worker holds the duration it hands to wait_for and calcSleepCompensation
HasSleepTime(w) == workers[w].pc \in {"lock", "waiting", "record", "record2"}

\* C18: the duration handed to wait_for and to calcSleepCompensation, the
\* sleep time less the offset, is never negative for a period > 0, and the
\* compensation accumulator never decreases.
WaitNeverNegative ==
    /\ [](\A w \in Slots :
            (HasSleepTime(w) /\ workers[w].period > 0)
                => workers[w].sleep >= 0)
    /\ [][~U64Less(collector'.compensation, collector.compensation)]_vars

\* a worker has recorded a cycle and started the next action
SecondCycleStarted ==
    \E w \in Slots : /\ workers[w].pc = "action"
                     /\ workers[w].invoked = 2
                     /\ workers[w].recorded = 1
                     /\ collector.samples = 1

\* C19: a cycle whose wait timed out records one error sample and then one
\* compensation amount before the next action is invoked, and nothing else
\* changes the collector; the actions a worker has started are as many as
\* the samples it has recorded, or one more, and the cycle in which it
\* leaves the loop is not recorded.
CycleRecordedOnce ==
    /\ [](\A w \in Slots :
            /\ workers[w].pc \in {"none", "spawned", "calc"} =>
                    (workers[w].invoked = 0 /\ workers[w].recorded = 0)
            /\ workers[w].pc \in {"top", "record2"} =>
                    workers[w].invoked = workers[w].recorded
            /\ workers[w].pc \in {"action", "lock", "waiting", "record"} =>
                    workers[w].invoked = workers[w].recorded + 1)
    /\ [][/\ \A w \in Slots :
                /\ (workers[w].pc # "record" /\ workers'[w].pc = "record") =>
                        (workers[w].pc = "waiting" /\ workers[w].timedOut)
                /\ (workers[w].pc = "record" /\ workers'[w].pc # "record") =>
                        /\ workers'[w].pc = "record2"
                        /\ workers'[w].recorded = workers[w].recorded + 1
                        /\ collector'.samples = collector.samples + 1
                        /\ collector'.compensation = collector.compensation
                /\ (workers[w].pc = "record2" /\ workers'[w].pc # "record2") =>
                        /\ workers'[w].pc = "top"
                        /\ workers'[w].invoked = workers[w].invoked
                        /\ collector'.samples = collector.samples
                        /\ collector'.compensation
                              = U64Add(collector.compensation,
                                       ToU64(workers[w].sleep))
                /\ (workers[w].pc # "exited" /\ workers'[w].pc = "exited") =>
                        workers[w].pc \in {"lock", "waiting"}
          /\ collector' # collector =>
                \E w \in Slots :
                    \/ workers[w].pc = "record" /\ workers'[w].pc = "record2"
                    \/ workers[w].pc = "record2" /\ workers'[w].pc = "top"]_vars

\* setRate(.., true) has joined a worker that had recorded a cycle and has
\* started a new one, and the sample is still counted
RestartKeptSamples ==
    /\ hist.last = "setRate" /\ ctlOp = "none" /\ hist.joined
    /\ collector.samples >= 1
    /\ \E w \in Slots : workers[w].pc = "action"

\* C20: the collector is never reset: no step of setRate(.., true) changes
\* it, only a worker recording a cycle does, and the sample count and the
\* tolerance count never decrease.
CollectorNeverReset ==
    [][/\ (ctlOp = "setRate" /\ ctlPc' # ctlPc) => collector' = collector
       /\ collector'.samples >= collector.samples
       /\ collector'.toleraceExcessionCount
                >= collector.toleraceExcessionCount
       /\ collector' # collector =>
            \E w \in Slots : /\ workers[w].pc \in {"record", "record2"}
                             /\ workers'[w].pc # workers[w].pc]_vars

====
